---- MODULE Spec2Model ----
(***************************************************************************)
(* A model of src/distribution.py: the batch pipeline that reads imdb.csv  *)
(* and omdb.csv under a list of candidate encodings, tallies the values of *)
(* six candidate columns, writes a comparison file per column, scores the  *)
(* overlap of the two value sets and prints the ranked join candidates.    *)
(*                                                                         *)
(* Text is modelled as a sequence of one-character strings, so that        *)
(* splitting, capitalizing and CSV quoting are computed, not assumed.      *)
(* A missing cell (pandas NaN) is the record NaN; a score is the rational  *)
(* num/den that Python's true division rounds to a float.                  *)
(***************************************************************************)
EXTENDS Integers, Sequences, FiniteSets, TLC

VARIABLES
    pc,               \* position of the module's top-level code
    file,             \* the file handed to the latest read_csv_with_encoding call
    read,             \* what that call did: its attempts and how it ended
    imdb_df,          \* line 96
    omdb_df,          \* line 97
    column_idx,       \* where the for loop of line 103 is in potential_join_columns
    call,             \* the latest analyze_column call: its locals and return value
    files,            \* the files written to the working directory: name -> text
    join_candidates,  \* line 101
    stdout            \* what lines 111-112 (ranked) and 120-121 (rows) have printed

vars == <<pc, file, read, imdb_df, omdb_df, column_idx, call, files, join_candidates, stdout>>

----------------------------------------------------------------------------
(* Text helpers *)

Range(s) == {s[k] : k \in DOMAIN s}

Min(a, b) == IF a <= b THEN a ELSE b

Lowercase == <<"a","b","c","d","e","f","g","h","i","j","k","l","m",
               "n","o","p","q","r","s","t","u","v","w","x","y","z">>

Uppercase == <<"A","B","C","D","E","F","G","H","I","J","K","L","M",
               "N","O","P","Q","R","S","T","U","V","W","X","Y","Z">>

upper(c) ==
    IF \E k \in DOMAIN Lowercase : Lowercase[k] = c
    THEN Uppercase[CHOOSE k \in DOMAIN Lowercase : Lowercase[k] = c]
    ELSE c

lower(c) ==
    IF \E k \in DOMAIN Uppercase : Uppercase[k] = c
    THEN Lowercase[CHOOSE k \in DOMAIN Uppercase : Uppercase[k] = c]
    ELSE c

RECURSIVE lower_all(_)
lower_all(s) == IF s = <<>> THEN <<>> ELSE <<lower(Head(s))>> \o lower_all(Tail(s))

\* str.capitalize(): the first character upper-cased, every other one lower-cased.
capitalize(s) == IF s = <<>> THEN <<>> ELSE <<upper(Head(s))>> \o lower_all(Tail(s))

Digits == <<"0","1","2","3","4","5","6","7","8","9">>

\* str(n) of a non-negative int, as csv.writer renders a count.
RECURSIVE str(_)
str(n) == IF n < 10 THEN <<Digits[n + 1]>> ELSE str(n \div 10) \o <<Digits[(n % 10) + 1]>>

\* s.split(sep): the pieces between the separators, empty pieces kept.
RECURSIVE split(_, _)
split(s, sep) ==
    IF \A k \in DOMAIN s : s[k] # sep
    THEN <<s>>
    ELSE LET k == CHOOSE j \in DOMAIN s : s[j] = sep /\ \A h \in 1..(j - 1) : s[h] # sep
         IN  <<SubSeq(s, 1, k - 1)>> \o split(SubSeq(s, k + 1, Len(s)), sep)

RECURSIVE Flatten(_)
Flatten(ss) == IF ss = <<>> THEN <<>> ELSE Head(ss) \o Flatten(Tail(ss))

----------------------------------------------------------------------------
(* Tables (pandas DataFrame) *)

NaN == [na |-> TRUE, text |-> <<>>]

Text(s) == [na |-> FALSE, text |-> s]

\* Series.astype(str): a missing cell becomes the text "nan".
astype_str(cell) == IF cell.na THEN <<"n","a","n">> ELSE cell.text

\* df[column]: the cells of one column, in row order.
Column(df, column) == [r \in DOMAIN df.rows |-> df.rows[r][column]]

\* collections.Counter(iterable): each distinct item with its number of occurrences.
Counter(items) ==
    [v \in Range(items) |-> Cardinality({k \in DOMAIN items : items[k] = v})]

get(counts, value, default) == IF value \in DOMAIN counts THEN counts[value] ELSE default

\* a variant without .str.split(',').explode()
count_occurrences_unsplit(df, column) ==
    LET cells == Column(df, column)
    IN  Counter([r \in DOMAIN cells |-> astype_str(cells[r])])

count_occurrences(df, column) ==
    LET cells  == Column(df, column)
        lists  == [r \in DOMAIN cells |-> split(astype_str(cells[r]), ",")]
    IN  Counter(Flatten(lists))

----------------------------------------------------------------------------
(* Overlap score: a rational num/den; the int 0 of line 57 is 0/1 *)

Score(num, den) == [num |-> num, den |-> den]

\* a variant of line 54 with max for min
calculate_m_to_n_score_max(imdb_unique, omdb_unique, total_unique) ==
    LET overlap     == imdb_unique + omdb_unique - total_unique
        max_overlap == IF imdb_unique >= omdb_unique THEN imdb_unique ELSE omdb_unique
    IN  IF max_overlap = 0 THEN Score(0, 1) ELSE Score(overlap, max_overlap)

\* a variant without the test of lines 56-57
calculate_m_to_n_score_unguarded(imdb_unique, omdb_unique, total_unique) ==
    LET overlap     == imdb_unique + omdb_unique - total_unique
        max_overlap == Min(imdb_unique, omdb_unique)
    IN  Score(overlap, max_overlap)

\* a variant whose degenerate case counts as full containment
calculate_m_to_n_score_one(imdb_unique, omdb_unique, total_unique) ==
    LET overlap     == imdb_unique + omdb_unique - total_unique
        max_overlap == Min(imdb_unique, omdb_unique)
    IN  IF max_overlap = 0 THEN Score(1, 1) ELSE Score(overlap, max_overlap)

calculate_m_to_n_score(imdb_unique, omdb_unique, total_unique) ==
    LET overlap     == imdb_unique + omdb_unique - total_unique
        max_overlap == Min(imdb_unique, omdb_unique)
    IN  IF max_overlap = 0 THEN Score(0, 1) ELSE Score(overlap, max_overlap)

\* a >= b for two scores with positive denominators
ScoreGeq(a, b) == a.num * b.den >= b.num * a.den

----------------------------------------------------------------------------
(* The comparison file: csv.writer with the default (excel) dialect *)

NeedsQuotes(field) == \E k \in DOMAIN field : field[k] \in {",", "\"", "\r", "\n"}

RECURSIVE DoubleQuotes(_)
DoubleQuotes(field) ==
    IF field = <<>> THEN <<>>
    ELSE (IF Head(field) = "\"" THEN <<"\"", "\"">> ELSE <<Head(field)>>)
         \o DoubleQuotes(Tail(field))

\* One field as csv.writer renders it under QUOTE_MINIMAL with doublequote.
FormatField(field) ==
    IF NeedsQuotes(field) THEN <<"\"">> \o DoubleQuotes(field) \o <<"\"">> ELSE field

RECURSIVE JoinFields(_)
JoinFields(fields) ==
    IF Len(fields) = 1 THEN FormatField(fields[1])
    ELSE FormatField(Head(fields)) \o <<",">> \o JoinFields(Tail(fields))

\* writer.writerow(row): the fields joined by the delimiter, then the line terminator.
writerow(row) == JoinFields(row) \o <<"\r", "\n">>

IMDB_Count == <<"I","M","D","B"," ","C","o","u","n","t">>

OMDB_Count == <<"O","M","D","B"," ","C","o","u","n","t">>

\* The orders in which iterating a set may yield its elements.
IterationOrders(S) ==
    {o \in [1..Cardinality(S) -> S] : \A j, k \in 1..Cardinality(S) : j # k => o[j] # o[k]}

RECURSIVE WriteRows(_, _, _)
WriteRows(imdb_counts, omdb_counts, order) ==
    IF order = <<>> THEN <<>>
    ELSE LET value      == Head(order)
             imdb_count == get(imdb_counts, value, 0)
             omdb_count == get(omdb_counts, value, 0)
         IN  writerow(<<value, str(imdb_count), str(omdb_count)>>)
             \o WriteRows(imdb_counts, omdb_counts, Tail(order))

\* a variant of line 44 that forgets the second tally
all_values_imdb_only(imdb_counts, omdb_counts) == DOMAIN imdb_counts

\* line 44: the union of the two tallies' keys
all_values(imdb_counts, omdb_counts) == DOMAIN imdb_counts \cup DOMAIN omdb_counts

\* The text of the file write_counts_to_csv leaves; order is the order in which the
\* for loop of line 46 meets the elements of the set all_values.
write_counts_to_csv(imdb_counts, omdb_counts, column_name, order) ==
    writerow(<<column_name, IMDB_Count, OMDB_Count>>)
    \o WriteRows(imdb_counts, omdb_counts, order)

----------------------------------------------------------------------------
(* analyze_column *)

counts_csv == <<"_","c","o","u","n","t","s",".","c","s","v">>

ColumnsFound(imdb, omdb, column) ==
    column \in imdb.columns /\ capitalize(column) \in omdb.columns

\* The iteration orders the call's write_counts_to_csv may meet (none when it writes nothing).
WriteOrders(imdb, omdb, column) ==
    IF ColumnsFound(imdb, omdb, column)
    THEN IterationOrders(all_values(count_occurrences(imdb, column),
                                    count_occurrences(omdb, capitalize(column))))
    ELSE {<<>>}

\* a variant that looks the column up verbatim in both tables
analyze_column_verbatim(imdb, omdb, column, order) ==
    IF column \in imdb.columns /\ column \in omdb.columns
    THEN LET imdb_counts  == count_occurrences(imdb, column)
             omdb_counts  == count_occurrences(omdb, column)
             imdb_unique  == Cardinality(DOMAIN imdb_counts)
             omdb_unique  == Cardinality(DOMAIN omdb_counts)
             total_unique == Cardinality(DOMAIN imdb_counts \cup DOMAIN omdb_counts)
         IN  [column          |-> column,
              found           |-> TRUE,
              imdb_counts     |-> imdb_counts,
              omdb_counts     |-> omdb_counts,
              output_filename |-> column \o counts_csv,
              text            |-> write_counts_to_csv(imdb_counts, omdb_counts,
                                                      capitalize(column), order),
              ret             |-> <<imdb_unique, omdb_unique, total_unique,
                                    calculate_m_to_n_score(imdb_unique, omdb_unique,
                                                           total_unique)>>]
    ELSE [column |-> column,
          found  |-> FALSE,
          ret    |-> <<0, 0, 0, Score(0, 1)>>]

\* The call's locals, the text it writes and the tuple it returns.
analyze_column(imdb, omdb, column, order) ==
    LET imdb_column == column
        omdb_column == capitalize(column)
    IN  IF imdb_column \in imdb.columns /\ omdb_column \in omdb.columns
        THEN LET imdb_counts     == count_occurrences(imdb, imdb_column)
                 omdb_counts     == count_occurrences(omdb, omdb_column)
                 output_filename == column \o counts_csv
                 imdb_unique     == Cardinality(DOMAIN imdb_counts)
                 omdb_unique     == Cardinality(DOMAIN omdb_counts)
                 total_unique    == Cardinality(DOMAIN imdb_counts \cup DOMAIN omdb_counts)
                 m_to_n_score    == calculate_m_to_n_score(imdb_unique, omdb_unique, total_unique)
             IN  [column          |-> column,
                  found           |-> TRUE,
                  imdb_counts     |-> imdb_counts,
                  omdb_counts     |-> omdb_counts,
                  output_filename |-> output_filename,
                  text            |-> write_counts_to_csv(imdb_counts, omdb_counts,
                                                          capitalize(column), order),
                  ret             |-> <<imdb_unique, omdb_unique, total_unique, m_to_n_score>>]
        ELSE [column |-> column,
              found  |-> FALSE,
              ret    |-> <<0, 0, 0, Score(0, 1)>>]

----------------------------------------------------------------------------
(* read_csv_with_encoding *)

None == "None"

\* The codec Python resolves an encoding name to (None: pandas' default, utf-8).
Codec(encoding) ==
    CASE encoding \in {None, "utf-8"}                         -> "utf_8"
      [] encoding \in {"iso-8859-1", "ISO-8859-1", "latin1"} -> "latin_1"
      [] encoding \in {"windows-1252", "Windows-1252"}       -> "cp1252"
      [] encoding = "ascii"                                  -> "ascii"

Codecs == {"ascii", "utf_8", "latin_1", "cp1252"}

Parsed(df) == [status |-> "ok", df |-> df]

Failed(exception) == [status |-> exception]

\* line 13
encodings_to_try == <<"utf-8", "iso-8859-1", "windows-1252", "latin1">>

\* a variant without the except clause of line 31: any other exception leaves the loop
RECURSIVE try_encodings_uncaught(_, _, _)
try_encodings_uncaught(f, todo, attempts) ==
    IF todo = <<>>
    THEN [attempts |-> attempts, raised |-> "ValueError"]
    ELSE LET encoding == Head(todo)
             outcome  == f.parse[Codec(encoding)]
         IN  CASE outcome.status = "ok" ->
                    [attempts |-> Append(attempts, <<encoding, "ok">>),
                     raised   |-> "",
                     df       |-> outcome.df]
               [] outcome.status = "Exception" ->
                    [attempts |-> Append(attempts, <<encoding, "Exception">>),
                     raised   |-> "Exception"]
               [] OTHER ->
                    try_encodings_uncaught(f, Tail(todo),
                                           Append(attempts, <<encoding, outcome.status>>))

\* The for loop of lines 18-34 over the encodings left to try.
RECURSIVE try_encodings(_, _, _)
try_encodings(f, todo, attempts) ==
    IF todo = <<>>
    THEN [attempts |-> attempts, raised |-> "ValueError"]
    ELSE LET encoding == Head(todo)
             outcome  == f.parse[Codec(encoding)]
         IN  IF outcome.status = "ok"
             THEN [attempts |-> Append(attempts, <<encoding, "ok">>),
                   raised   |-> "",
                   df       |-> outcome.df]
             ELSE try_encodings(f, Tail(todo), Append(attempts, <<encoding, outcome.status>>))

\* a variant that appends the detected encoding instead of inserting it first
read_csv_detected_last(f) ==
    try_encodings(f, encodings_to_try \o <<f.detected>>, <<>>)

read_csv_with_encoding(f) ==
    try_encodings(f, <<f.detected>> \o encodings_to_try, <<>>)

----------------------------------------------------------------------------
(* Module top level, lines 92-123 *)

imdb_path == "imdb.csv"

omdb_path == "omdb.csv"

potential_join_columns ==
    << <<"t","i","t","l","e">>, <<"d","i","r","e","c","t","o","r">>, <<"c","a","s","t">>,
       <<"w","r","i","t","e","r">>, <<"g","e","n","r","e">>, <<"y","e","a","r">> >>

\* a variant of line 110 without reverse=True: stable, smaller scores first
RECURSIVE sort_ascending(_)
sort_ascending(candidates) ==
    IF candidates = <<>> THEN <<>>
    ELSE LET sorted == sort_ascending(SubSeq(candidates, 1, Len(candidates) - 1))
             x      == candidates[Len(candidates)]
             k      == Cardinality({j \in DOMAIN sorted : ScoreGeq(x[5], sorted[j][5])})
         IN  SubSeq(sorted, 1, k) \o <<x>> \o SubSeq(sorted, k + 1, Len(sorted))

\* list.sort(key=lambda x: x[4], reverse=True): stable, larger scores first.
InsertByScore(sorted, x) ==
    LET k == Cardinality({j \in DOMAIN sorted : ScoreGeq(sorted[j][5], x[5])})
    IN  SubSeq(sorted, 1, k) \o <<x>> \o SubSeq(sorted, k + 1, Len(sorted))

RECURSIVE sort(_)
sort(candidates) ==
    IF candidates = <<>> THEN <<>>
    ELSE InsertByScore(sort(SubSeq(candidates, 1, Len(candidates) - 1)),
                       candidates[Len(candidates)])

count_rows(df) == Len(df.rows)

\* a variant of line 106 with `or` for `and`
qualifies_either(imdb_unique, omdb_unique) == imdb_unique > 1 \/ omdb_unique > 1

\* line 106
qualifies(imdb_unique, omdb_unique) == imdb_unique > 1 /\ omdb_unique > 1

Unbound == [unbound |-> TRUE]

NotCalled == [called |-> FALSE]

Init ==
    /\ pc = "read_imdb"
    /\ file = NotCalled
    /\ read = NotCalled
    /\ imdb_df = Unbound
    /\ omdb_df = Unbound
    /\ column_idx = 1
    /\ call = NotCalled
    /\ files = <<>>
    /\ join_candidates = <<>>
    /\ stdout = [ranked |-> <<>>, rows |-> <<>>]

\* line 96, the file drawn from the files the path may hold
ReadImdb(Files) ==
    /\ pc = "read_imdb"
    /\ \E f \in Files :
         LET r == read_csv_with_encoding(f)
         IN  /\ file' = f
             /\ read' = r
             /\ IF r.raised # ""
                THEN pc' = "error" /\ UNCHANGED imdb_df
                ELSE pc' = "read_omdb" /\ imdb_df' = r.df
    /\ UNCHANGED <<omdb_df, column_idx, call, files, join_candidates, stdout>>

\* lines 97-101
ReadOmdb(Files) ==
    /\ pc = "read_omdb"
    /\ \E f \in Files :
         LET r == read_csv_with_encoding(f)
         IN  /\ file' = f
             /\ read' = r
             /\ IF r.raised # ""
                THEN pc' = "error" /\ UNCHANGED omdb_df
                ELSE pc' = "columns" /\ omdb_df' = r.df
    /\ UNCHANGED <<imdb_df, column_idx, call, files, join_candidates, stdout>>

\* one iteration of the loop of lines 103-107
AnalyzeNext ==
    /\ pc = "columns"
    /\ LET column == potential_join_columns[column_idx]
       IN  \E order \in WriteOrders(imdb_df, omdb_df, column) :
             LET r            == analyze_column(imdb_df, omdb_df, column, order)
                 imdb_unique  == r.ret[1]
                 omdb_unique  == r.ret[2]
                 total_unique == r.ret[3]
                 m_to_n_score == r.ret[4]
             IN  /\ call' = r
                 /\ files' = IF r.found THEN (r.output_filename :> r.text) @@ files ELSE files
                 /\ join_candidates' =
                      IF qualifies(imdb_unique, omdb_unique)
                      THEN Append(join_candidates,
                                  <<column, imdb_unique, omdb_unique, total_unique, m_to_n_score>>)
                      ELSE join_candidates
    /\ column_idx' = column_idx + 1
    /\ pc' = IF column_idx = Len(potential_join_columns) THEN "rank" ELSE "columns"
    /\ UNCHANGED <<file, read, imdb_df, omdb_df, stdout>>

\* lines 109-112
Rank ==
    /\ pc = "rank"
    /\ join_candidates' = sort(join_candidates)
    /\ stdout' = [stdout EXCEPT !.ranked = join_candidates']
    /\ pc' = "rows"
    /\ UNCHANGED <<file, read, imdb_df, omdb_df, column_idx, call, files>>

\* lines 114-123
Finish ==
    /\ pc = "rows"
    /\ stdout' = [stdout EXCEPT !.rows = <<count_rows(imdb_df), count_rows(omdb_df)>>]
    /\ pc' = "done"
    /\ UNCHANGED <<file, read, imdb_df, omdb_df, column_idx, call, files, join_candidates>>

----------------------------------------------------------------------------
(* The inputs: the files the two paths may hold *)

title == potential_join_columns[1]

genre == potential_join_columns[5]

Drama == <<"D","r","a","m","a">>

Comedy == <<"C","o","m","e","d","y">>

Drama_Comedy == Drama \o <<",">> \o Comedy

\* a value with a leading blank, a quote character and a line break in it
Quoted == <<" ", "\"", "x", "\"", "\n">>

MaxRows == 1

MaxSeriesLen == 2

\* Every table with the given columns, at most maxrows rows and cells among Cells.
Tables(columns, Cells, maxrows) ==
    {[columns |-> columns, rows |-> rows] :
        rows \in UNION {[1..n -> [columns -> Cells]] : n \in 0..maxrows}}

\* A file every codec decodes to the same table.
PlainFile(path, df) ==
    [path |-> path, detected |-> "ascii", parse |-> [c \in Codecs |-> Parsed(df)]]

\* A file no codec can parse (an empty file: pandas raises EmptyDataError).
EmptyFile(path) ==
    [path |-> path, detected |-> None, parse |-> [c \in Codecs |-> Failed("Exception")]]

\* Files whose outcome differs from codec to codec; latin_1 decodes every byte, so
\* it never raises UnicodeDecodeError.
EncTables ==
    {[columns |-> {genre, capitalize(genre)},
      rows    |-> << [c \in {genre, capitalize(genre)} |-> Text(cell)] >>] :
        cell \in {<<"a", ",", "b">>, <<"a", ",", "c">>}}

Outcomes == {Failed("UnicodeDecodeError"), Failed("Exception")} \cup {Parsed(df) : df \in EncTables}

Detected == {None, "ascii", "utf-8", "ISO-8859-1", "Windows-1252"}

EncFiles(path) ==
    {[path |-> path, detected |-> d, parse |-> p] :
        d \in Detected,
        p \in {q \in [Codecs -> Outcomes] : q["latin_1"] # Failed("UnicodeDecodeError")}}

\* Two-column tables, with the column names of each source and a miscapitalized one.
ImdbCells == {Text(<<"a">>), Text(<<"a", ",", "b">>)}

OmdbCells == {Text(<<"a">>), Text(<<"a", ",", "b">>), Text(<<"a", ",", "c">>)}

TableFiles(path) ==
    IF path = imdb_path
    THEN {PlainFile(path, df) : df \in Tables({title, genre}, ImdbCells, MaxRows)
                                       \cup Tables({genre}, ImdbCells, MaxRows)}
         \cup {EmptyFile(path)}
    ELSE {PlainFile(path, df) : df \in Tables({capitalize(title), capitalize(genre)}, OmdbCells, MaxRows)
                                       \cup Tables({capitalize(title), genre}, OmdbCells, MaxRows)}
         \cup {EmptyFile(path)}

\* One-column tables with multi-valued, missing and quoted cells.
ImdbSeries == {NaN, Text(Drama), Text(Comedy), Text(Drama_Comedy), Text(Quoted)}

OmdbSeries == {NaN, Text(Drama), Text(Drama_Comedy)}

ColumnFiles(path) ==
    IF path = imdb_path
    THEN {PlainFile(path, df) : df \in Tables({genre}, ImdbSeries, MaxSeriesLen)}
         \cup {EmptyFile(path)}
    ELSE {PlainFile(path, df) : df \in Tables({capitalize(genre)}, OmdbSeries, MaxSeriesLen)}
         \cup {EmptyFile(path)}

----------------------------------------------------------------------------
(* Specifications: the same program over the three families of input files *)

Next ==
    \/ ReadImdb(EncFiles(imdb_path))
    \/ ReadOmdb(EncFiles(omdb_path))
    \/ AnalyzeNext
    \/ Rank
    \/ Finish

Spec == Init /\ [][Next]_vars

NextTables ==
    \/ ReadImdb(TableFiles(imdb_path))
    \/ ReadOmdb(TableFiles(omdb_path))
    \/ AnalyzeNext
    \/ Rank
    \/ Finish

SpecTables == Init /\ [][NextTables]_vars

NextColumn ==
    \/ ReadImdb(ColumnFiles(imdb_path))
    \/ ReadOmdb(ColumnFiles(omdb_path))
    \/ AnalyzeNext
    \/ Rank
    \/ Finish

SpecColumn == Init /\ [][NextColumn]_vars

----------------------------------------------------------------------------
(* Claims *)

\* The candidate encodings of a file, in the order the claims give them.
Candidates(f) == <<f.detected, "utf-8", "iso-8859-1", "windows-1252", "latin1">>

Succeeds(f, k) == f.parse[Codec(Candidates(f)[k])].status = "ok"

Exhausted(f) == \A k \in 1..5 : ~Succeeds(f, k)

\* C1: the reader tries [detected, utf-8, iso-8859-1, windows-1252, latin1] in that
\* order; whenever some candidate succeeds it raises nothing, its attempts are
\* exactly the candidates up to and including the first one that succeeds, and the
\* table it returns (and the program binds) is the one that candidate parsed.
C1_FirstSuccessReturned ==
    (file # NotCalled /\ ~Exhausted(file)) =>
        LET first == CHOOSE k \in 1..5 :
                        Succeeds(file, k) /\ \A j \in 1..(k - 1) : ~Succeeds(file, j)
        IN  /\ read.raised = ""
            /\ Len(read.attempts) = first
            /\ \A j \in 1..first :
                 read.attempts[j] =
                     <<Candidates(file)[j], file.parse[Codec(Candidates(file)[j])].status>>
            /\ read.df = file.parse[Codec(Candidates(file)[first])].df
            /\ file.path = imdb_path => imdb_df = read.df
            /\ file.path = omdb_path => omdb_df = read.df

\* C1 witness: utf-8 fails to decode, iso-8859-1 fails too, windows-1252 succeeds
\* and is the fourth and last attempt.
C1_Witness ==
    /\ file # NotCalled
    /\ Len(read.attempts) = 4
    /\ read.attempts[2] = <<"utf-8", "UnicodeDecodeError">>
    /\ read.attempts[4] = <<"windows-1252", "ok">>
    /\ imdb_df = file.parse["cp1252"].df

NothingDone ==
    /\ files = <<>>
    /\ join_candidates = <<>>
    /\ call = NotCalled
    /\ stdout = [ranked |-> <<>>, rows |-> <<>>]

\* How far the run is: larger after every statement executed.
Progress(p, idx) ==
    CASE p = "read_imdb" -> 0
      [] p = "read_omdb" -> 1
      [] p = "columns"   -> 1 + idx
      [] p = "rank"      -> 9
      [] p = "rows"      -> 10
      [] p \in {"done", "error"} -> 11

\* The statement the run is at can execute. For the column loop this is the
\* enabling condition of AnalyzeNext, whose other conjuncts only assign.
CanStep ==
    CASE pc = "read_imdb" -> ENABLED ReadImdb(EncFiles(imdb_path))
      [] pc = "read_omdb" -> ENABLED ReadOmdb(EncFiles(omdb_path))
      [] pc = "columns"   -> /\ column_idx \in DOMAIN potential_join_columns
                             /\ WriteOrders(imdb_df, omdb_df,
                                            potential_join_columns[column_idx]) # {}
      [] pc = "rank"      -> ENABLED Rank
      [] pc = "rows"      -> ENABLED Finish
      [] OTHER            -> FALSE

\* What a step may do: it never starts from the error, it takes the run further, a
\* read ends in error exactly when its file is exhausted, and nothing else does.
StepAbortsIffExhausted ==
    /\ pc # "error"
    /\ Progress(pc', column_idx') > Progress(pc, column_idx)
    /\ pc \in {"read_imdb", "read_omdb"} => (pc' = "error" <=> Exhausted(file'))
    /\ pc' = "error" => pc \in {"read_imdb", "read_omdb"}

\* C2: a read ends the run in error exactly when every candidate encoding of its
\* file fails (decode failures and other exceptions alike); nothing else ends it in
\* error; after the error no step is taken and nothing was analyzed, written or
\* printed; a run that is neither in error nor complete always has a next step,
\* every step takes it further, and once complete it has been through all six
\* columns and has printed the ranked list and both row counts.
C2_AbortIffExhausted ==
    /\ [](pc = "error" => Exhausted(file) /\ NothingDone)
    /\ [](pc \notin {"done", "error"} => CanStep)
    /\ [](pc = "done" => /\ column_idx = 7
                         /\ stdout.ranked = join_candidates
                         /\ stdout.rows = <<Len(imdb_df.rows), Len(omdb_df.rows)>>)
    /\ [][StepAbortsIffExhausted]_vars

\* C2 witness: imdb.csv was read, every candidate of omdb.csv failed, some with a
\* decode error and some with another exception, and the run stopped.
C2_Witness ==
    /\ pc = "error"
    /\ file.path = omdb_path
    /\ imdb_df # Unbound
    /\ \E j, k \in DOMAIN read.attempts :
         read.attempts[j][2] = "UnicodeDecodeError" /\ read.attempts[k][2] = "Exception"

\* The six candidate columns as table B names them.
CapitalizedColumns ==
    << <<"T","i","t","l","e">>, <<"D","i","r","e","c","t","o","r">>, <<"C","a","s","t">>,
       <<"W","r","i","t","e","r">>, <<"G","e","n","r","e">>, <<"Y","e","a","r">> >>

CandidateColumns ==
    << <<"t","i","t","l","e">>, <<"d","i","r","e","c","t","o","r">>, <<"c","a","s","t">>,
       <<"w","r","i","t","e","r">>, <<"g","e","n","r","e">>, <<"y","e","a","r">> >>

NameInB(column) ==
    CapitalizedColumns[CHOOSE k \in 1..6 : CandidateColumns[k] = column]

\* The column is in table A verbatim and in table B capitalized.
Present(column) == column \in imdb_df.columns /\ NameInB(column) \in omdb_df.columns

DistinctA(column) == Cardinality(DOMAIN count_occurrences(imdb_df, column))

DistinctB(column) == Cardinality(DOMAIN count_occurrences(omdb_df, NameInB(column)))

CountsFile(column) == column \o <<"_","c","o","u","n","t","s",".","c","s","v">>

Listed(list, column) == \E k \in DOMAIN list : list[k][1] = column

BothRead == pc \in {"columns", "rank", "rows", "done"}

\* C3: a column is in join_candidates (and in the printed ranking) only if it is
\* present in both tables with more than one distinct value in table A and more
\* than one in table B.
C3_OnlyInformativeColumnsListed ==
    BothRead =>
        \A column \in Range(CandidateColumns) :
            (Listed(join_candidates, column) \/ Listed(stdout.ranked, column)) =>
                /\ Present(column)
                /\ DistinctA(column) > 1
                /\ DistinctB(column) > 1

\* C3 witness: the run is complete; title has one distinct value in A, two in B,
\* every A value is a B value (the score is 1.0), and title is not listed, while
\* another column is.
C3_Witness ==
    /\ pc = "done"
    /\ Present(CandidateColumns[1])
    /\ DistinctA(CandidateColumns[1]) = 1
    /\ DistinctB(CandidateColumns[1]) = 2
    /\ DOMAIN count_occurrences(imdb_df, CandidateColumns[1])
         \subseteq DOMAIN count_occurrences(omdb_df, CapitalizedColumns[1])
    /\ ~Listed(join_candidates, CandidateColumns[1])
    /\ Len(join_candidates) = 1

\* C4: a column absent from table A under its own name, or from table B under its
\* capitalized name, makes analyze_column return (0, 0, 0, 0) without computing a
\* tally or writing a text; no <column>_counts.csv exists for it, it is in neither
\* join_candidates nor the printed ranking, and the loop goes on to the next column.
C4_MissingColumnSkipped ==
    BothRead =>
        /\ \A k \in 1..(column_idx - 1) :
             ~Present(CandidateColumns[k]) =>
                 /\ CountsFile(CandidateColumns[k]) \notin DOMAIN files
                 /\ ~Listed(join_candidates, CandidateColumns[k])
                 /\ ~Listed(stdout.ranked, CandidateColumns[k])
        /\ call # NotCalled =>
             /\ call.column = CandidateColumns[column_idx - 1]
             /\ column_idx <= 6 => pc = "columns"
             /\ ~Present(call.column) =>
                  /\ call.ret = <<0, 0, 0, [num |-> 0, den |-> 1]>>
                  /\ DOMAIN call \cap {"imdb_counts", "omdb_counts", "text"} = {}

\* C4 witness: the run is complete; title was analyzed and its file written; genre
\* is in table A, table B has a column genre but none named Genre, and no
\* genre_counts.csv was written.
C4_Witness ==
    /\ pc = "done"
    /\ Present(CandidateColumns[1])
    /\ CountsFile(CandidateColumns[1]) \in DOMAIN files
    /\ CandidateColumns[5] \in imdb_df.columns
    /\ CandidateColumns[5] \in omdb_df.columns
    /\ CapitalizedColumns[5] \notin omdb_df.columns
    /\ CountsFile(CandidateColumns[5]) \notin DOMAIN files

\* The number of values the two columns share.
Shared(column) ==
    Cardinality(DOMAIN count_occurrences(imdb_df, column)
                \cap DOMAIN count_occurrences(omdb_df, NameInB(column)))

\* C9: the printed ranking lists exactly the candidate columns that are present in
\* both tables with more than one distinct value on each side, each once, with its
\* counts and its score (shared values over the smaller distinct count), and the
\* scores do not increase down the list.
C9_RankingSortedAndExact ==
    pc \in {"rows", "done"} =>
        LET ranked     == stdout.ranked
            Qualifying == {c \in Range(CandidateColumns) :
                              Present(c) /\ DistinctA(c) > 1 /\ DistinctB(c) > 1}
        IN  /\ {ranked[k][1] : k \in DOMAIN ranked} = Qualifying
            /\ Len(ranked) = Cardinality(Qualifying)
            /\ \A k \in DOMAIN ranked :
                 LET c == ranked[k][1]
                 IN  /\ ranked[k][2] = DistinctA(c)
                     /\ ranked[k][3] = DistinctB(c)
                     /\ ranked[k][4] = DistinctA(c) + DistinctB(c) - Shared(c)
                     /\ ranked[k][5].den > 0
                     /\ ranked[k][5].num * Min(DistinctA(c), DistinctB(c))
                          = Shared(c) * ranked[k][5].den
            /\ \A k \in 1..(Len(ranked) - 1) :
                 ranked[k][5].num * ranked[k + 1][5].den
                     >= ranked[k + 1][5].num * ranked[k][5].den

\* C9 witness: two columns qualify; genre, analyzed after title, has the strictly
\* larger score and is printed first.
C9_Witness ==
    /\ pc = "done"
    /\ Len(stdout.ranked) = 2
    /\ stdout.ranked[1][1] = CandidateColumns[5]
    /\ stdout.ranked[2][1] = CandidateColumns[1]
    /\ stdout.ranked[1][5].num * stdout.ranked[2][5].den
         > stdout.ranked[2][5].num * stdout.ranked[1][5].den

\* The latest analyze_column call found its column in both tables.
Analyzed == call # NotCalled /\ call.found

KeysA == DOMAIN call.imdb_counts

KeysB == DOMAIN call.omdb_counts

\* The score is the number 1.0.
IsOne(score) == score.den > 0 /\ score.num = score.den

\* The score is the number 0.
IsZero(score) == score.den > 0 /\ score.num = 0

\* The call was given the distinct counts of its two tallies and of their union.
CountsAreOfTallies ==
    /\ call.ret[1] = Cardinality(KeysA)
    /\ call.ret[2] = Cardinality(KeysB)
    /\ call.ret[3] = Cardinality(KeysA \cup KeysB)

\* C5 as claimed: the score is 1.0 whenever one tally's key set is a subset of the
\* other's.
C5_SubsetScoresOne ==
    (Analyzed /\ (KeysA \subseteq KeysB \/ KeysB \subseteq KeysA)) =>
        CountsAreOfTallies /\ IsOne(call.ret[4])

\* C5 as amended: the score is 1.0 whenever one tally's key set is a subset of the
\* other's and neither tally is empty.
C5_NonEmptySubsetScoresOne ==
    (Analyzed /\ KeysA # {} /\ KeysB # {}
              /\ (KeysA \subseteq KeysB \/ KeysB \subseteq KeysA)) =>
        CountsAreOfTallies /\ IsOne(call.ret[4])

\* C5 witness: the keys of A are some but not all of the keys of B.
C5_Witness ==
    /\ Analyzed
    /\ KeysA # {}
    /\ KeysA \subseteq KeysB
    /\ KeysA # KeysB
    /\ IsOne(call.ret[4])

\* C6: with a, b and u the distinct counts of the two tallies and of their union,
\* 0 <= a + b - u <= min(a, b), the score is (a + b - u) / min(a, b) unless
\* min(a, b) is 0, it lies in [0, 1], and its denominator is never 0.
C6_ScoreInUnitInterval ==
    Analyzed =>
        LET a     == Cardinality(KeysA)
            b     == Cardinality(KeysB)
            u     == Cardinality(KeysA \cup KeysB)
            score == call.ret[4]
        IN  /\ CountsAreOfTallies
            /\ 0 <= a + b - u
            /\ a + b - u <= Min(a, b)
            /\ score.den > 0
            /\ 0 <= score.num
            /\ score.num <= score.den
            /\ Min(a, b) # 0 => score.num * Min(a, b) = (a + b - u) * score.den

\* C6 witness: a score strictly between 0 and 1.
C6_Witness ==
    /\ Analyzed
    /\ 0 < call.ret[4].num
    /\ call.ret[4].num < call.ret[4].den

\* C7: the score is 0 when either tally is empty.
C7_EmptyTallyScoresZero ==
    (Analyzed /\ (KeysA = {} \/ KeysB = {})) =>
        CountsAreOfTallies /\ IsZero(call.ret[4])

\* C7 witness: table A has no rows, table B has values.
C7_Witness ==
    /\ Analyzed
    /\ KeysA = {}
    /\ KeysB # {}
    /\ IsZero(call.ret[4])

\* Reading a file back with Python's csv.reader (default dialect, the file opened
\* with newline=''): the records of the text, each a sequence of fields. A line
\* break ends a record unless it is inside a quoted field; inside quotes a doubled
\* quote character is one quote character.
LineBreak == {"\r", "\n"}

\* The text after the line break that starts it ("\r\n" is one line break).
AfterLineBreak(text) ==
    IF Len(text) >= 2 /\ text[1] = "\r" /\ text[2] = "\n"
    THEN SubSeq(text, 3, Len(text))
    ELSE Tail(text)

RECURSIVE csv_parse(_, _, _, _, _)
csv_parse(text, state, field, record, records) ==
    IF text = <<>>
    THEN IF state = "START_RECORD" THEN records
         ELSE Append(records, Append(record, field))
    ELSE LET c == Head(text)
         IN  CASE state \in {"START_RECORD", "START_FIELD"} /\ c \in LineBreak ->
                    csv_parse(AfterLineBreak(text), "START_RECORD", <<>>, <<>>,
                              Append(records, IF state = "START_RECORD" THEN <<>>
                                              ELSE Append(record, <<>>)))
               [] state \in {"START_RECORD", "START_FIELD"} /\ c = "\"" ->
                    csv_parse(Tail(text), "IN_QUOTED_FIELD", <<>>, record, records)
               [] state \in {"START_RECORD", "START_FIELD"} /\ c = "," ->
                    csv_parse(Tail(text), "START_FIELD", <<>>, Append(record, <<>>), records)
               [] state \in {"START_RECORD", "START_FIELD"} /\ c \notin LineBreak \cup {"\"", ","} ->
                    csv_parse(Tail(text), "IN_FIELD", <<c>>, record, records)
               [] state \in {"IN_FIELD", "QUOTE_IN_QUOTED_FIELD"} /\ c \in LineBreak ->
                    csv_parse(AfterLineBreak(text), "START_RECORD", <<>>, <<>>,
                              Append(records, Append(record, field)))
               [] state \in {"IN_FIELD", "QUOTE_IN_QUOTED_FIELD"} /\ c = "," ->
                    csv_parse(Tail(text), "START_FIELD", <<>>, Append(record, field), records)
               [] state = "IN_FIELD" /\ c \notin LineBreak \cup {","} ->
                    csv_parse(Tail(text), "IN_FIELD", Append(field, c), record, records)
               [] state = "QUOTE_IN_QUOTED_FIELD" /\ c = "\"" ->
                    csv_parse(Tail(text), "IN_QUOTED_FIELD", Append(field, c), record, records)
               [] state = "QUOTE_IN_QUOTED_FIELD" /\ c \notin LineBreak \cup {",", "\""} ->
                    csv_parse(Tail(text), "IN_FIELD", Append(field, c), record, records)
               [] state = "IN_QUOTED_FIELD" /\ c = "\"" ->
                    csv_parse(Tail(text), "QUOTE_IN_QUOTED_FIELD", field, record, records)
               [] state = "IN_QUOTED_FIELD" /\ c # "\"" ->
                    csv_parse(Tail(text), "IN_QUOTED_FIELD", Append(field, c), record, records)

csv_reader(text) == csv_parse(text, "START_RECORD", <<>>, <<>>, <<>>)

\* A count as the text a reader finds in the file.
RECURSIVE Decimal(_)
Decimal(n) ==
    IF n < 10
    THEN <<CASE n = 0 -> "0" [] n = 1 -> "1" [] n = 2 -> "2" [] n = 3 -> "3" [] n = 4 -> "4"
             [] n = 5 -> "5" [] n = 6 -> "6" [] n = 7 -> "7" [] n = 8 -> "8" [] n = 9 -> "9">>
    ELSE Decimal(n \div 10) \o Decimal(n % 10)

\* C8: every <column>_counts.csv written reads back as one header record followed
\* by exactly one record per value of the union of the two tallies' keys, so
\* |union| + 1 records; the record of a value holds its count in A and its count
\* in B, 0 for a side on which it does not occur.
C8_OneRecordPerUnionValue ==
    BothRead =>
        \A column \in Range(CandidateColumns) :
            CountsFile(column) \in DOMAIN files =>
                LET tallyA  == count_occurrences(imdb_df, column)
                    tallyB  == count_occurrences(omdb_df, NameInB(column))
                    union   == DOMAIN tallyA \cup DOMAIN tallyB
                    records == csv_reader(files[CountsFile(column)])
                IN  /\ Len(records) = Cardinality(union) + 1
                    /\ records[1] = <<NameInB(column),
                                      <<"I","M","D","B"," ","C","o","u","n","t">>,
                                      <<"O","M","D","B"," ","C","o","u","n","t">> >>
                    /\ \A v \in union :
                         /\ Cardinality({k \in 2..Len(records) : records[k][1] = v}) = 1
                         /\ \A k \in 2..Len(records) :
                              records[k][1] = v =>
                                  records[k] =
                                      <<v,
                                        Decimal(IF v \in DOMAIN tallyA THEN tallyA[v] ELSE 0),
                                        Decimal(IF v \in DOMAIN tallyB THEN tallyB[v] ELSE 0)>>

\* C8 witness: genre_counts.csv was written from tallies with a value only in A
\* (one that csv.writer has to quote), a value only in B and a value in both.
C8_Witness ==
    /\ pc = "done"
    /\ CountsFile(CandidateColumns[5]) \in DOMAIN files
    /\ LET keysA == DOMAIN count_occurrences(imdb_df, CandidateColumns[5])
           keysB == DOMAIN count_occurrences(omdb_df, CapitalizedColumns[5])
       IN  /\ <<" ", "\"", "x", "\"", "\n">> \in keysA \ keysB
           /\ keysB \ keysA # {}
           /\ keysA \cap keysB # {}

\* The text of a cell: its own, or "nan" for a missing cell.
CellText(cell) == IF cell.na THEN <<"n", "a", "n">> ELSE cell.text

\* The comma-separated substrings of a text, as <<first, last>> positions: runs
\* without a comma that reach from the start or a comma to a comma or the end.
Pieces(s) ==
    {p \in (1..(Len(s) + 1)) \X (0..Len(s)) :
        /\ p[2] >= p[1] - 1
        /\ p[1] = 1 \/ s[p[1] - 1] = ","
        /\ p[2] = Len(s) \/ s[p[2] + 1] = ","
        /\ \A k \in p[1]..p[2] : s[k] # ","}

\* The occurrences of the columns' comma-separated substrings: row, position, text.
Occurrences(df, column) ==
    UNION {{<<r, p, SubSeq(CellText(df.rows[r][column]), p[1], p[2])>> :
                p \in Pieces(CellText(df.rows[r][column]))} : r \in DOMAIN df.rows}

Commas(df, column) ==
    Cardinality(UNION {{<<r, k>> : k \in {j \in DOMAIN CellText(df.rows[r][column]) :
                                              CellText(df.rows[r][column])[j] = ","}} :
                       r \in DOMAIN df.rows})

RECURSIVE SumCounts(_)
SumCounts(tally) ==
    IF DOMAIN tally = {} THEN 0
    ELSE LET v == CHOOSE w \in DOMAIN tally : TRUE
         IN  tally[v] + SumCounts([w \in DOMAIN tally \ {v} |-> tally[w]])

\* The tally maps exactly the comma-separated substrings of the column's cells to
\* their numbers of occurrences; its counts sum to rows + commas.
IsTallyOf(tally, df, column) ==
    LET occ == Occurrences(df, column)
    IN  /\ DOMAIN tally = {o[3] : o \in occ}
        /\ \A v \in DOMAIN tally : tally[v] = Cardinality({o \in occ : o[3] = v})
        /\ \A v \in DOMAIN tally : \A k \in DOMAIN v : v[k] # ","
        /\ SumCounts(tally) = Len(df.rows) + Commas(df, column)

GenreCells(df, column) == [r \in DOMAIN df.rows |-> df.rows[r][column]]

\* C10: each tally of an analyzed column maps every string to its number of
\* occurrences as a comma-separated substring of the column's cells, a missing
\* cell counting as "nan" and nothing being trimmed, so the counts sum to rows +
\* commas; for A genre cells ["Drama", "Comedy"] and B Genre cells ["Drama",
\* "Drama,Comedy"] the tallies are {Drama: 1, Comedy: 1} and {Drama: 2, Comedy: 1}
\* and the call returns 2, 2, 2 and the score 1.0.
C10_TallyCountsSplitValues ==
    Analyzed =>
        /\ IsTallyOf(call.imdb_counts, imdb_df, call.column)
        /\ IsTallyOf(call.omdb_counts, omdb_df, NameInB(call.column))
        /\ ( /\ call.column = CandidateColumns[5]
             /\ GenreCells(imdb_df, CandidateColumns[5])
                  = <<Text(<<"D","r","a","m","a">>), Text(<<"C","o","m","e","d","y">>)>>
             /\ GenreCells(omdb_df, CapitalizedColumns[5])
                  = <<Text(<<"D","r","a","m","a">>),
                      Text(<<"D","r","a","m","a",",","C","o","m","e","d","y">>)>> )
           => /\ call.imdb_counts = (<<"D","r","a","m","a">> :> 1 @@ <<"C","o","m","e","d","y">> :> 1)
              /\ call.omdb_counts = (<<"D","r","a","m","a">> :> 2 @@ <<"C","o","m","e","d","y">> :> 1)
              /\ call.ret[1] = 2
              /\ call.ret[2] = 2
              /\ call.ret[3] = 2
              /\ IsOne(call.ret[4])

\* C10 witness: the scenario's tables were analyzed.
C10_Witness ==
    /\ Analyzed
    /\ call.column = CandidateColumns[5]
    /\ GenreCells(imdb_df, CandidateColumns[5])
         = <<Text(<<"D","r","a","m","a">>), Text(<<"C","o","m","e","d","y">>)>>
    /\ GenreCells(omdb_df, CapitalizedColumns[5])
         = <<Text(<<"D","r","a","m","a">>),
             Text(<<"D","r","a","m","a",",","C","o","m","e","d","y">>)>>
    /\ call.omdb_counts[<<"D","r","a","m","a">>] = 2

====
